---- MODULE Spec2Model ----
(***************************************************************************)
(* Model of karton/core/karton.py: Producer.send_task, the scoped          *)
(* Producer.continue_asynchronic, and the Consumer engine                   *)
(* (Consumer.loop, Consumer.internal_process, the hook runners).            *)
(*                                                                         *)
(* The broker (redis) is the shared state: task records, the lists that    *)
(* are the queues, the bind registry hash, the metric hashes and the task   *)
(* state declarations.  Every broker command is atomic; a method that       *)
(* issues several commands is split at the commands, so that other          *)
(* processes interleave exactly where the code lets them.                   *)
(*                                                                         *)
(* Exceptions are modelled for the Exception class (what `except            *)
(* Exception` catches): a handler, a hook, a scope body, an upload or the   *)
(* read of a task record may raise.  The hard interrupt (KeyboardInterrupt, *)
(* lines 312-314) is not modelled.                                          *)
(***************************************************************************)
EXTENDS Integers, Sequences, FiniteSets, TLC

\* ------------------------------------------------------------------ bounds
MaxTasks == 2          \* tasks ever sent (task uids are 1..MaxTasks)
MaxScopes == 2         \* continue_asynchronic scopes ever entered
NumPreHooks == 2       \* pre-hooks registered on every consumer instance
NumPostHooks == 2      \* post-hooks registered on every consumer instance
MaxRetireTasks == 1    \* tasks sent while the retirement of instances is followed

\* ------------------------------------------------------- names of the code
TASKS_QUEUE == "karton.tasks"
METRICS_PRODUCED == "karton.metrics.produced"
METRICS_CONSUMED == "karton.metrics.consumed"
METRICS_ERRORED == "karton.metrics.errored"

STARTED == "STARTED"
FINISHED == "FINISHED"
TaskState == {STARTED, FINISHED}

HIGH == "high"
NORMAL == "normal"
LOW == "low"
TaskPriority == {HIGH, NORMAL, LOW}

\* One standalone Producer object and two Consumer (Karton) instances that
\* run under the same identity.
ProducerObj == "producer"
Instances == {"i1", "i2"}
Objs == {ProducerObj} \cup Instances

ProducerIdentity == "karton.producer"
ConsumerIdentity == "karton.consumer"
Identities == {ProducerIdentity, ConsumerIdentity}

\* self.identity
Identity(o) == IF o = ProducerObj THEN ProducerIdentity ELSE ConsumerIdentity

\* The legacy queue is the list named by the identity itself.
LegacyQueue == ConsumerIdentity

\* "karton.queue.{}:{}".format(priority, identity)
PriorityQueue(priority) ==
    CASE priority = HIGH -> "karton.queue.high:karton.consumer"
      [] priority = NORMAL -> "karton.queue.normal:karton.consumer"
      [] priority = LOW -> "karton.queue.low:karton.consumer"

ConsumerQueues == {LegacyQueue} \cup {PriorityQueue(p) : p \in TaskPriority}
QueueNames == {TASKS_QUEUE} \cup ConsumerQueues

TaskIds == 1 .. MaxTasks
NoUid == 0

\* self.config.minio_config["bucket"]
DefaultBucket == "karton"
OwnBucket == "samples"
NoBucket == ""

\* ------------------------------------------------------------ task values
\* A resource is LocalResource (local = TRUE) or a remote one, with a bucket.
Res(local, bucket) == [local |-> local, bucket |-> bucket]

NoResources == <<>>
OneLocalNoBucket == <<Res(TRUE, NoBucket)>>
LocalAndRemote == <<Res(TRUE, OwnBucket), Res(FALSE, OwnBucket), Res(TRUE, NoBucket)>>

NoPayload == [k \in {} |-> ""]

\* The tasks a caller builds and hands to send_task.
CallerTask(type, kind, priority, asynchronic, persistent, resources) ==
    [headers |-> [type |-> type, kind |-> kind],
     priority |-> priority,
     asynchronic |-> asynchronic,
     payload_persistent |-> persistent,
     resources |-> resources]

CallerTasks ==
    { CallerTask("sample", "raw", HIGH, FALSE, [ctx |-> "a"], OneLocalNoBucket),
      CallerTask("sample", "dump", LOW, TRUE, NoPayload, LocalAndRemote),
      CallerTask("config", "raw", NORMAL, FALSE, [ctx |-> "b"], NoResources) }

NoTask == [uid |-> NoUid]

\* ------------------------------------------------------------------ binds
SampleFilters == << [type |-> "sample", kind |-> "raw"], [type |-> "sample"] >>
ConfigFilters == << [type |-> "config"] >>
FilterSets == {SampleFilters, ConfigFilters}

NoRegistration == <<>>

\* Task.matches_bind: every header the bind names has the bind's value.
matches_bind(headers, bind) ==
    \A k \in DOMAIN bind : k \in DOMAIN headers /\ headers[k] = bind[k]

\* ------------------------------------------------------------------ state
VARIABLES
    records,          \* broker: karton.task:<uid> -> serialized task, or NoTask
    queue,            \* broker: list name -> sequence of task uids
    binds,            \* broker: karton.binds[identity], or NoRegistration
    metrics,          \* broker: metric hash name -> identity -> counter
    declared,         \* broker: <<uid, state, identity>> -> number of declarations
    minio,            \* object store: set of <<bucket, task uid, resource index>>
    created,          \* number of Task objects built so far (uids 1..created)
    current_task,     \* per object: uid of self.current_task, NoUid for None
    spc,              \* per object: position inside send_task
    sending,          \* per object: the Task object send_task is working on
    scopes,           \* open continue_asynchronic frames of the producer, innermost first
    entered,          \* number of scopes entered so far
    fleet,            \* the instances that are deployed (their loop is run)
    faulty,           \* the registered hooks that raise when they are called
    filters,          \* per instance: class attribute `filters`
    pc,               \* per instance: position inside loop / internal_process
                      \* ("exited": loop returned, "crashed": loop raised)
    shutdown,         \* per instance: self.shutdown
    old_registration, \* per instance: what the registration pipeline read
    item,             \* per instance: what blpop returned, [queue, data]
    saved_exception,  \* per instance: local saved_exception of internal_process
    trace             \* per instance: events of the current internal_process call

brokerVars == <<records, queue, binds, metrics, declared, minio>>
producerVars == <<created, current_task, spc, sending, scopes, entered>>
configVars == <<fleet, faulty, filters>>
loopVars == <<configVars, pc, shutdown, old_registration, item, saved_exception, trace>>
vars == <<brokerVars, producerVars, loopVars>>

NoItem == [queue |-> "", data |-> NoUid]
NoException == "None"
AnException == "Exception"

\* The state after construction of the broker's data and of the objects.
InitState ==
    /\ records = [t \in TaskIds |-> NoTask]
    /\ queue = [q \in QueueNames |-> <<>>]
    /\ binds = NoRegistration
    /\ metrics = [m \in {METRICS_PRODUCED, METRICS_CONSUMED, METRICS_ERRORED} |->
                    [idn \in Identities |-> 0]]
    /\ declared = [d \in TaskIds \X TaskState \X Identities |-> 0]
    /\ minio = {}
    /\ created = 0
    /\ current_task = [o \in Objs |-> NoUid]
    /\ spc = [o \in Objs |-> "idle"]
    /\ sending = [o \in Objs |-> NoTask]
    /\ scopes = <<>>
    /\ entered = 0
    /\ pc = [i \in Instances |-> "created"]
    /\ shutdown = [i \in Instances |-> FALSE]
    /\ old_registration = [i \in Instances |-> NoRegistration]
    /\ item = [i \in Instances |-> NoItem]
    /\ saved_exception = [i \in Instances |-> NoException]
    /\ trace = [i \in Instances |-> <<>>]

\* A deployment: which instances run, with which filters, and which of the
\* registered hooks are callbacks that raise.
HookFaults == [pre : SUBSET (1 .. NumPreHooks), post : SUBSET (1 .. NumPostHooks)]

Init ==
    /\ InitState
    /\ fleet \in SUBSET Instances
    /\ faulty \in HookFaults
    /\ filters \in [Instances -> FilterSets]

\* ------------------------------------------------------- broker operations
\* rs.hincrby(name, identity, 1)
hincrby(m, name, idn) == [m EXCEPT ![name][idn] = @ + 1]

\* declare_task_state(task, status, identity): one more declaration of the
\* state for the task under the identity.
declare_task_state(d, uid, status, idn) == [d EXCEPT ![<<uid, status, idn>>] = @ + 1]

\* rs.rpush(name, uid)
rpush(q, name, uid) == [q EXCEPT ![name] = Append(@, uid)]

\* ------------------------------------------------------ Producer.send_task
\* Task.merge_persistent_payload: the other task's persistent fields are
\* merged in, the task's own fields win on a key collision.
merge_persistent_payload(own, other) ==
    [k \in DOMAIN own \cup DOMAIN other |-> IF k \in DOMAIN own THEN own[k] ELSE other[k]]

\* task.headers.update({"origin": self.identity})
WithOrigin(headers, idn) ==
    [k \in DOMAIN headers \cup {"origin"} |-> IF k = "origin" THEN idn ELSE headers[k]]

\* Lines 80-82: a LocalResource without a bucket gets the default bucket.
EnsureBuckets(resources) ==
    [n \in DOMAIN resources |->
        IF resources[n].local /\ resources[n].bucket = NoBucket
        THEN [resources[n] EXCEPT !.bucket = DefaultBucket]
        ELSE resources[n]]

\* Mutant of CompleteTask: the caller's priority is kept when a current task
\* is set.
CompleteTaskKeepingPriority(o, uid, t) ==
    LET cur == current_task[o] IN
    [uid |-> uid,
     headers |-> WithOrigin(t.headers, Identity(o)),
     priority |-> t.priority,
     parent |-> IF cur # NoUid THEN cur ELSE NoUid,
     asynchronic |-> t.asynchronic,
     payload_persistent |->
        IF cur # NoUid
        THEN merge_persistent_payload(t.payload_persistent, records[cur].payload_persistent)
        ELSE t.payload_persistent,
     resources |-> EnsureBuckets(t.resources)]

\* Lines 70-82: the task as send_task completes it before serializing.
CompleteTask(o, uid, t) ==
    LET cur == current_task[o] IN
    [uid |-> uid,
     headers |-> WithOrigin(t.headers, Identity(o)),
     priority |-> IF cur # NoUid THEN records[cur].priority ELSE t.priority,
     parent |-> IF cur # NoUid THEN cur ELSE NoUid,
     asynchronic |-> t.asynchronic,
     payload_persistent |->
        IF cur # NoUid
        THEN merge_persistent_payload(t.payload_persistent, records[cur].payload_persistent)
        ELSE t.payload_persistent,
     resources |-> EnsureBuckets(t.resources)]

\* An object may call send_task when it is not inside send_task already: the
\* producer at any time, a consumer instance from its handler.
MayCall(o) ==
    /\ spc[o] = "idle"
    /\ o \in Instances => pc[o] = "process"

\* The local resources of a task, as indices into its resource list.
LocalResources(t) == {n \in DOMAIN t.resources : t.resources[n].local}

StoreKey(t, n) == <<t.resources[n].bucket, t.uid, n>>

\* Mutant of SendDeclare: the record is not written before the push.
SendDeclareWithoutRecord(o) ==
    /\ MayCall(o)
    /\ created < MaxTasks
    /\ \E t \in CallerTasks :
         LET uid == created + 1 IN
         /\ created' = uid
         /\ sending' = [sending EXCEPT ![o] = CompleteTask(o, uid, t)]
    /\ spc' = [spc EXCEPT ![o] = "declared"]
    /\ UNCHANGED brokerVars
    /\ UNCHANGED <<current_task, scopes, entered>>
    /\ UNCHANGED loopVars

\* send_task, lines 68-87: complete the task, serialize it and write the
\* record under the task key.
SendDeclare(o) ==
    /\ MayCall(o)
    /\ created < MaxTasks
    /\ \E t \in CallerTasks :
         LET uid == created + 1
             task == CompleteTask(o, uid, t) IN
         /\ created' = uid
         /\ sending' = [sending EXCEPT ![o] = task]
         /\ records' = [records EXCEPT ![uid] = task]
    /\ spc' = [spc EXCEPT ![o] = "declared"]
    /\ UNCHANGED <<queue, binds, metrics, declared, minio>>
    /\ UNCHANGED <<current_task, scopes, entered>>
    /\ UNCHANGED loopVars

\* Mutant of SendUpload: the upload loop stops after the first local
\* resource.
SendUploadFirstOnly(o) ==
    /\ spc[o] = "declared"
    /\ minio' = minio \cup {StoreKey(sending[o], n) :
                              n \in {m \in LocalResources(sending[o]) :
                                       \A k \in LocalResources(sending[o]) : m <= k}}
    /\ spc' = [spc EXCEPT ![o] = "uploaded"]
    /\ UNCHANGED <<records, queue, binds, metrics, declared>>
    /\ UNCHANGED <<created, current_task, sending, scopes, entered>>
    /\ UNCHANGED loopVars

\* send_task, lines 90-92: every local resource is uploaded.
SendUpload(o) ==
    /\ spc[o] = "declared"
    /\ minio' = minio \cup {StoreKey(sending[o], n) : n \in LocalResources(sending[o])}
    /\ spc' = [spc EXCEPT ![o] = "uploaded"]
    /\ UNCHANGED <<records, queue, binds, metrics, declared>>
    /\ UNCHANGED <<created, current_task, sending, scopes, entered>>
    /\ UNCHANGED loopVars

\* Mutant of SendUploadFails: the failed send_task deletes the record it
\* wrote before the exception leaves it.
SendUploadFailsRollingBack(o) ==
    /\ spc[o] = "declared"
    /\ \E n \in LocalResources(sending[o]) :
         minio' = minio \cup {StoreKey(sending[o], k) :
                                k \in {j \in LocalResources(sending[o]) : j < n}}
    /\ records' = [records EXCEPT ![sending[o].uid] = NoTask]
    /\ spc' = [spc EXCEPT ![o] = "idle"]
    /\ sending' = [sending EXCEPT ![o] = NoTask]
    /\ UNCHANGED <<queue, binds, metrics, declared>>
    /\ UNCHANGED <<created, current_task, scopes, entered>>
    /\ UNCHANGED loopVars

\* send_task, lines 90-92, resource.upload raises at the local resource n:
\* the resources before it are uploaded, the exception leaves send_task.
SendUploadFails(o) ==
    /\ spc[o] = "declared"
    /\ \E n \in LocalResources(sending[o]) :
         minio' = minio \cup {StoreKey(sending[o], k) :
                                k \in {j \in LocalResources(sending[o]) : j < n}}
    /\ spc' = [spc EXCEPT ![o] = "idle"]
    /\ sending' = [sending EXCEPT ![o] = NoTask]
    /\ UNCHANGED <<records, queue, binds, metrics, declared>>
    /\ UNCHANGED <<created, current_task, scopes, entered>>
    /\ UNCHANGED loopVars

\* send_task, line 95: the uid is pushed onto the unrouted task queue.
SendPush(o) ==
    /\ spc[o] = "uploaded"
    /\ queue' = rpush(queue, TASKS_QUEUE, sending[o].uid)
    /\ spc' = [spc EXCEPT ![o] = "pushed"]
    /\ UNCHANGED <<records, binds, metrics, declared, minio>>
    /\ UNCHANGED <<created, current_task, sending, scopes, entered>>
    /\ UNCHANGED loopVars

\* send_task, lines 96-97: the produced counter, return True.
SendCount(o) ==
    /\ spc[o] = "pushed"
    /\ metrics' = hincrby(metrics, METRICS_PRODUCED, Identity(o))
    /\ spc' = [spc EXCEPT ![o] = "idle"]
    /\ sending' = [sending EXCEPT ![o] = NoTask]
    /\ UNCHANGED <<records, queue, binds, declared, minio>>
    /\ UNCHANGED <<created, current_task, scopes, entered>>
    /\ UNCHANGED loopVars

\* -------------------------------------------- Producer.continue_asynchronic
\* A frame is one suspended generator of the context manager: its argument
\* `finish` and its local old_current_task (`task` is kept for reference).
Frame(task, old, finish) == [task |-> task, old_current_task |-> old, finish |-> finish]

\* Lines 116-122: the scope is entered, up to the yield.  The task continued
\* is one that was sent before.
ScopeEnter ==
    /\ spc[ProducerObj] = "idle"
    /\ entered < MaxScopes
    /\ \E t \in TaskIds, finish \in BOOLEAN :
         /\ records[t] # NoTask
         /\ scopes' = <<Frame(t, current_task[ProducerObj], finish)>> \o scopes
         /\ current_task' = [current_task EXCEPT ![ProducerObj] = t]
    /\ entered' = entered + 1
    /\ UNCHANGED brokerVars
    /\ UNCHANGED <<created, spc, sending>>
    /\ UNCHANGED loopVars

\* Lines 124-131: the body ended normally, the generator resumes after the
\* yield.
ScopeExit ==
    /\ spc[ProducerObj] = "idle"
    /\ scopes # <<>>
    /\ LET frame == Head(scopes) IN
         /\ declared' = IF frame.finish
                         THEN declare_task_state(declared, current_task[ProducerObj],
                                                 FINISHED, Identity(ProducerObj))
                         ELSE declared
         /\ current_task' = [current_task EXCEPT ![ProducerObj] = frame.old_current_task]
    /\ scopes' = Tail(scopes)
    /\ UNCHANGED <<records, queue, binds, metrics, minio>>
    /\ UNCHANGED <<created, spc, sending, entered>>
    /\ UNCHANGED loopVars

\* Line 122: the body raised.  contextlib throws the exception into the
\* generator at the yield; the yield is in no try block, so the generator
\* ends there and lines 124-131 do not run.  The exception goes on to the
\* enclosing code, which is free to catch it.
ScopeRaise ==
    /\ spc[ProducerObj] = "idle"
    /\ scopes # <<>>
    /\ scopes' = Tail(scopes)
    /\ UNCHANGED brokerVars
    /\ UNCHANGED <<created, current_task, spc, sending, entered>>
    /\ UNCHANGED loopVars

\* ------------------------------------------------------------------ router
\* The routing service between the unrouted queue and the consumer queues:
\* it takes the next uid from karton.tasks and, if the task matches a bind of
\* the registered consumer, pushes it onto the queue of the task's priority
\* (a router of the previous version pushes onto the legacy queue).
Route ==
    /\ queue[TASKS_QUEUE] # <<>>
    /\ LET uid == Head(queue[TASKS_QUEUE])
           rest == [queue EXCEPT ![TASKS_QUEUE] = Tail(@)] IN
         IF /\ binds # NoRegistration
            /\ \E n \in DOMAIN binds.filters :
                  matches_bind(records[uid].headers, binds.filters[n])
         THEN \E q \in {PriorityQueue(records[uid].priority), LegacyQueue} :
                 queue' = rpush(rest, q, uid)
         ELSE queue' = rest
    /\ UNCHANGED <<records, binds, metrics, declared, minio>>
    /\ UNCHANGED producerVars
    /\ UNCHANGED loopVars

\* ------------------------------------------------------------ Consumer.loop
\* Consumer._registration: json.dumps of the class's description with sorted
\* keys; two instances have equal registrations iff the fields are equal.
Registration(i) ==
    [filters |-> filters[i], info |-> "Base consumer class",
     persistent |-> TRUE, version |-> "version"]

\* Consumer.graceful_shutdown, called by the signal handler at any moment.
GracefulShutdown(i) ==
    /\ i \in fleet
    /\ pc[i] \notin {"exited", "crashed"}
    /\ ~shutdown[i]
    /\ shutdown' = [shutdown EXCEPT ![i] = TRUE]
    /\ UNCHANGED brokerVars
    /\ UNCHANGED producerVars
    /\ UNCHANGED <<configVars, pc, old_registration, item, saved_exception, trace>>

\* Mutant of LoopStart: the pipeline queues the write before the read.
LoopStartWriteThenRead(i) ==
    /\ pc[i] = "created"
    /\ i \in fleet
    /\ old_registration' = [old_registration EXCEPT ![i] = Registration(i)]
    /\ binds' = Registration(i)
    /\ pc' = [pc EXCEPT ![i] = "top"]
    /\ UNCHANGED <<records, queue, metrics, declared, minio>>
    /\ UNCHANGED producerVars
    /\ UNCHANGED <<configVars, shutdown, item, saved_exception, trace>>

\* loop, lines 275-291: the transaction reads the old registration and
\* writes the instance's own.
LoopStart(i) ==
    /\ pc[i] = "created"
    /\ i \in fleet
    /\ old_registration' = [old_registration EXCEPT ![i] = binds]
    /\ binds' = Registration(i)
    /\ pc' = [pc EXCEPT ![i] = "top"]
    /\ UNCHANGED <<records, queue, metrics, declared, minio>>
    /\ UNCHANGED producerVars
    /\ UNCHANGED <<configVars, shutdown, item, saved_exception, trace>>

\* Mutant of LoopTop: the registry is not compared, only the flag is tested.
LoopTopWithoutRegistryCheck(i) ==
    /\ pc[i] = "top"
    /\ pc' = [pc EXCEPT ![i] = IF shutdown[i] THEN "exited" ELSE "blpop"]
    /\ item' = [item EXCEPT ![i] = NoItem]
    /\ saved_exception' = [saved_exception EXCEPT ![i] = NoException]
    /\ trace' = [trace EXCEPT ![i] = <<>>]
    /\ UNCHANGED brokerVars
    /\ UNCHANGED producerVars
    /\ UNCHANGED <<configVars, shutdown, old_registration>>

\* loop, lines 294-297: the while condition and the registry check.
LoopTop(i) ==
    /\ pc[i] = "top"
    /\ pc' = [pc EXCEPT ![i] =
               IF shutdown[i] \/ binds # Registration(i) THEN "exited" ELSE "blpop"]
    /\ item' = [item EXCEPT ![i] = NoItem]
    /\ saved_exception' = [saved_exception EXCEPT ![i] = NoException]
    /\ trace' = [trace EXCEPT ![i] = <<>>]
    /\ UNCHANGED brokerVars
    /\ UNCHANGED producerVars
    /\ UNCHANGED <<configVars, shutdown, old_registration>>

\* Mutant of BlpopKeys: the legacy queue is polled last.
BlpopKeysLegacyLast ==
    <<PriorityQueue(HIGH), PriorityQueue(NORMAL), PriorityQueue(LOW), LegacyQueue>>

\* The keys of the blpop call, in the order of the call (lines 300-305).
BlpopKeys ==
    <<LegacyQueue, PriorityQueue(HIGH), PriorityQueue(NORMAL), PriorityQueue(LOW)>>

\* BLPOP serves the first key of its list that names a non-empty list.
FirstNonEmpty(keys, q) ==
    LET ns == {n \in DOMAIN keys : q[keys[n]] # <<>>} IN
    IF ns = {} THEN ""
    ELSE keys[CHOOSE n \in ns : \A m \in ns : n <= m]

\* Mutant of Blpop: the head of the list is read and not removed.
BlpopWithoutRemoval(i) ==
    /\ pc[i] = "blpop"
    /\ LET key == FirstNonEmpty(BlpopKeys, queue) IN
         /\ key # ""
         /\ item' = [item EXCEPT ![i] = [queue |-> key, data |-> Head(queue[key])]]
    /\ pc' = [pc EXCEPT ![i] = "fetch"]
    /\ UNCHANGED brokerVars
    /\ UNCHANGED producerVars
    /\ UNCHANGED <<configVars, shutdown, old_registration, saved_exception, trace>>

\* loop, lines 299-311: blpop returns an item.
Blpop(i) ==
    /\ pc[i] = "blpop"
    /\ LET key == FirstNonEmpty(BlpopKeys, queue) IN
         /\ key # ""
         /\ item' = [item EXCEPT ![i] = [queue |-> key, data |-> Head(queue[key])]]
         /\ queue' = [queue EXCEPT ![key] = Tail(@)]
    /\ pc' = [pc EXCEPT ![i] = "fetch"]
    /\ UNCHANGED <<records, binds, metrics, declared, minio>>
    /\ UNCHANGED producerVars
    /\ UNCHANGED <<configVars, shutdown, old_registration, saved_exception, trace>>

\* Mutant of BlpopTimeout: blpop is called without a timeout and blocks until
\* a queue has an entry.
BlpopNeverTimesOut(i) ==
    /\ pc[i] = "blpop"
    /\ FALSE
    /\ UNCHANGED vars

\* loop, lines 299-309: blpop times out after 5 seconds on empty queues.
BlpopTimeout(i) ==
    /\ pc[i] = "blpop"
    /\ FirstNonEmpty(BlpopKeys, queue) = ""
    /\ pc' = [pc EXCEPT ![i] = "top"]
    /\ UNCHANGED brokerVars
    /\ UNCHANGED producerVars
    /\ UNCHANGED <<configVars, shutdown, old_registration, item, saved_exception, trace>>

\* ------------------------------------------------ Consumer.internal_process
\* One observable step of an internal_process call: a state declaration, a
\* hook or handler invocation, a metric increment.  `arg` is the declared
\* state, the exception passed or raised, or the metric; `raised` tells
\* whether the invoked callback raised.
Ev(ev, n, arg, raised) == [ev |-> ev, n |-> n, arg |-> arg, raised |-> raised]

\* Mutant of MatchesSomeBind: a bind counts as matched as soon as one of its
\* keys has the bind's value (any for all).
MatchesSomeKey(headers, binds_) ==
    \E n \in DOMAIN binds_ : \E k \in DOMAIN binds_[n] :
        k \in DOMAIN headers /\ headers[k] = binds_[n][k]

\* Lines 170-173: the for loop finds a bind the task matches.
MatchesSomeBind(headers, binds_) ==
    \E n \in DOMAIN binds_ : matches_bind(headers, binds_[n])

\* Mutant of _run_pre_hooks: the loop ends at the first hook that raises.
_run_pre_hooks_until_failure(raising) ==
    LET last == IF raising = {} THEN NumPreHooks
                ELSE CHOOSE n \in raising : \A m \in raising : n <= m IN
    [n \in 1 .. last |-> Ev("pre", n, NoException, n \in raising)]

\* Consumer._run_pre_hooks: every registered hook is called in registration
\* order, an exception of a hook is logged and swallowed.
_run_pre_hooks(raising) ==
    [n \in 1 .. NumPreHooks |-> Ev("pre", n, NoException, n \in raising)]

\* Consumer._run_post_hooks(exception)
_run_post_hooks(exception, raising) ==
    [n \in 1 .. NumPostHooks |-> Ev("post", n, exception, n \in raising)]

\* Mutant of Fetch: the flag is tested again before the popped task is read,
\* and a set flag ends the loop.
FetchUnlessShutdown(i) ==
    /\ pc[i] = "fetch"
    /\ LET uid == item[i].data IN
         IF shutdown[i]
         THEN /\ pc' = [pc EXCEPT ![i] = "exited"]
              /\ UNCHANGED <<current_task, declared, trace>>
         ELSE /\ current_task' = [current_task EXCEPT ![i] = uid]
              /\ IF MatchesSomeBind(records[uid].headers, filters[i])
                 THEN /\ pc' = [pc EXCEPT ![i] = "start"]
                      /\ UNCHANGED <<declared, trace>>
                 ELSE /\ declared' = declare_task_state(declared, uid, FINISHED, Identity(i))
                      /\ trace' = [trace EXCEPT ![i] = Append(@, Ev("declare", 0, FINISHED, FALSE))]
                      /\ pc' = [pc EXCEPT ![i] = "top"]
    /\ UNCHANGED <<records, queue, binds, metrics, minio>>
    /\ UNCHANGED <<created, spc, sending, scopes, entered>>
    /\ UNCHANGED <<configVars, shutdown, old_registration, item, saved_exception>>

\* internal_process, lines 167-178: the record is read and unserialized into
\* current_task; a task that matches no bind is declared FINISHED and the
\* method returns.
Fetch(i) ==
    /\ pc[i] = "fetch"
    /\ LET uid == item[i].data IN
         /\ current_task' = [current_task EXCEPT ![i] = uid]
         /\ IF MatchesSomeBind(records[uid].headers, filters[i])
            THEN /\ pc' = [pc EXCEPT ![i] = "start"]
                 /\ UNCHANGED <<declared, trace>>
            ELSE /\ declared' = declare_task_state(declared, uid, FINISHED, Identity(i))
                 /\ trace' = [trace EXCEPT ![i] = Append(@, Ev("declare", 0, FINISHED, FALSE))]
                 /\ pc' = [pc EXCEPT ![i] = "top"]
    /\ UNCHANGED <<records, queue, binds, metrics, minio>>
    /\ UNCHANGED <<created, spc, sending, scopes, entered>>
    /\ UNCHANGED <<configVars, shutdown, old_registration, item, saved_exception>>

\* internal_process, line 167, when the read of the record fails: rs.get
\* raises (the broker is unreachable), or Task.unserialize raises on what it
\* returned.  Line 167 is in no try block and loop catches KeyboardInterrupt
\* only (lines 312-314): the exception leaves internal_process and loop.
FetchFails(i) ==
    /\ pc[i] = "fetch"
    /\ pc' = [pc EXCEPT ![i] = "crashed"]
    /\ UNCHANGED brokerVars
    /\ UNCHANGED producerVars
    /\ UNCHANGED <<configVars, shutdown, old_registration, item, saved_exception, trace>>

\* Mutant of Start: the pre-hooks run before STARTED is declared.
StartAfterPreHooks(i) ==
    /\ pc[i] = "start"
    /\ declared' = declare_task_state(declared, current_task[i], STARTED, Identity(i))
    /\ trace' = [trace EXCEPT ![i] =
                   @ \o _run_pre_hooks(faulty.pre) \o <<Ev("declare", 0, STARTED, FALSE)>>]
    /\ pc' = [pc EXCEPT ![i] = "process"]
    /\ UNCHANGED <<records, queue, binds, metrics, minio>>
    /\ UNCHANGED producerVars
    /\ UNCHANGED <<configVars, shutdown, old_registration, item, saved_exception>>

\* internal_process, lines 180-186: STARTED is declared and the pre-hooks run.
Start(i) ==
    /\ pc[i] = "start"
    /\ declared' = declare_task_state(declared, current_task[i], STARTED, Identity(i))
    /\ trace' = [trace EXCEPT ![i] =
                   Append(@, Ev("declare", 0, STARTED, FALSE)) \o _run_pre_hooks(faulty.pre)]
    /\ pc' = [pc EXCEPT ![i] = "process"]
    /\ UNCHANGED <<records, queue, binds, metrics, minio>>
    /\ UNCHANGED producerVars
    /\ UNCHANGED <<configVars, shutdown, old_registration, item, saved_exception>>

\* Mutant of HandlerReturns: the exception of the handler is not caught by
\* the outer except clause and leaves internal_process.
HandlerReturnsPropagating(i) ==
    /\ pc[i] = "process"
    /\ spc[i] = "idle"
    /\ \E exc \in {NoException, AnException} :
         /\ saved_exception' = [saved_exception EXCEPT ![i] = exc]
         /\ trace' = [trace EXCEPT ![i] =
                        Append(@, Ev("process", 0, exc, exc # NoException))
                        \o _run_post_hooks(exc, faulty.post)]
         /\ pc' = [pc EXCEPT ![i] = IF exc # NoException THEN "crashed" ELSE "finally"]
    /\ UNCHANGED brokerVars
    /\ UNCHANGED producerVars
    /\ UNCHANGED <<configVars, shutdown, old_registration, item>>

\* internal_process, lines 189-206: the handler returns or raises, the
\* post-hooks run in the finally clause, and an exception of the handler goes
\* on to the outer except clause, which counts it.
HandlerReturns(i) ==
    /\ pc[i] = "process"
    /\ spc[i] = "idle"
    /\ \E exc \in {NoException, AnException} :
         /\ saved_exception' = [saved_exception EXCEPT ![i] = exc]
         /\ metrics' = IF exc # NoException
                        THEN hincrby(metrics, METRICS_ERRORED, Identity(i))
                        ELSE metrics
         /\ trace' = [trace EXCEPT ![i] =
                        Append(@, Ev("process", 0, exc, exc # NoException))
                        \o _run_post_hooks(exc, faulty.post)
                        \o IF exc # NoException
                           THEN <<Ev("hincrby", 0, METRICS_ERRORED, FALSE)>>
                           ELSE <<>>]
    /\ pc' = [pc EXCEPT ![i] = "finally"]
    /\ UNCHANGED <<records, queue, binds, declared, minio>>
    /\ UNCHANGED producerVars
    /\ UNCHANGED <<configVars, shutdown, old_registration, item>>

\* Mutant of Finalize: FINISHED is declared on the success path only.
FinalizeOnSuccessOnly(i) ==
    /\ pc[i] = "finally"
    /\ metrics' = hincrby(metrics, METRICS_CONSUMED, Identity(i))
    /\ IF ~records[current_task[i]].asynchronic /\ saved_exception[i] = NoException
       THEN /\ declared' = declare_task_state(declared, current_task[i], FINISHED, Identity(i))
            /\ trace' = [trace EXCEPT ![i] =
                           @ \o <<Ev("hincrby", 0, METRICS_CONSUMED, FALSE),
                                  Ev("declare", 0, FINISHED, FALSE)>>]
       ELSE /\ trace' = [trace EXCEPT ![i] =
                           Append(@, Ev("hincrby", 0, METRICS_CONSUMED, FALSE))]
            /\ UNCHANGED declared
    /\ pc' = [pc EXCEPT ![i] = "top"]
    /\ UNCHANGED <<records, queue, binds, minio>>
    /\ UNCHANGED producerVars
    /\ UNCHANGED <<configVars, shutdown, old_registration, item, saved_exception>>

\* Mutant of Finalize: the consumed counter is in the success path, not in
\* the finally clause.
FinalizeCountingSuccessOnly(i) ==
    /\ pc[i] = "finally"
    /\ metrics' = IF saved_exception[i] = NoException
                   THEN hincrby(metrics, METRICS_CONSUMED, Identity(i))
                   ELSE metrics
    /\ IF ~records[current_task[i]].asynchronic
       THEN /\ declared' = declare_task_state(declared, current_task[i], FINISHED, Identity(i))
            /\ trace' = [trace EXCEPT ![i] =
                           @ \o <<Ev("hincrby", 0, METRICS_CONSUMED, FALSE),
                                  Ev("declare", 0, FINISHED, FALSE)>>]
       ELSE /\ trace' = [trace EXCEPT ![i] =
                           Append(@, Ev("hincrby", 0, METRICS_CONSUMED, FALSE))]
            /\ UNCHANGED declared
    /\ pc' = [pc EXCEPT ![i] = "top"]
    /\ UNCHANGED <<records, queue, binds, minio>>
    /\ UNCHANGED producerVars
    /\ UNCHANGED <<configVars, shutdown, old_registration, item, saved_exception>>

\* internal_process, lines 207-212: the consumed counter, and FINISHED unless
\* the task is asynchronic.
Finalize(i) ==
    /\ pc[i] = "finally"
    /\ metrics' = hincrby(metrics, METRICS_CONSUMED, Identity(i))
    /\ IF ~records[current_task[i]].asynchronic
       THEN /\ declared' = declare_task_state(declared, current_task[i], FINISHED, Identity(i))
            /\ trace' = [trace EXCEPT ![i] =
                           @ \o <<Ev("hincrby", 0, METRICS_CONSUMED, FALSE),
                                  Ev("declare", 0, FINISHED, FALSE)>>]
       ELSE /\ trace' = [trace EXCEPT ![i] =
                           Append(@, Ev("hincrby", 0, METRICS_CONSUMED, FALSE))]
            /\ UNCHANGED declared
    /\ pc' = [pc EXCEPT ![i] = "top"]
    /\ UNCHANGED <<records, queue, binds, minio>>
    /\ UNCHANGED producerVars
    /\ UNCHANGED <<configVars, shutdown, old_registration, item, saved_exception>>

\* ----------------------------------------------------------- specification
Next ==
    \/ \E o \in Objs : SendDeclare(o)
    \/ \E o \in Objs : SendUpload(o)
    \/ \E o \in Objs : SendUploadFails(o)
    \/ \E o \in Objs : SendPush(o)
    \/ \E o \in Objs : SendCount(o)
    \/ ScopeEnter
    \/ ScopeExit
    \/ ScopeRaise
    \/ Route
    \/ \E i \in Instances : GracefulShutdown(i)
    \/ \E i \in Instances : LoopStart(i)
    \/ \E i \in Instances : LoopTop(i)
    \/ \E i \in Instances : Blpop(i)
    \/ \E i \in Instances : BlpopTimeout(i)
    \/ \E i \in Instances : Fetch(i)
    \/ \E i \in Instances : FetchFails(i)
    \/ \E i \in Instances : Start(i)
    \/ \E i \in Instances : HandlerReturns(i)
    \/ \E i \in Instances : Finalize(i)

Spec == Init /\ [][Next]_vars

\* The Producer object alone: send_task and continue_asynchronic.
NextProducer ==
    \/ SendDeclare(ProducerObj)
    \/ SendUpload(ProducerObj)
    \/ SendUploadFails(ProducerObj)
    \/ SendPush(ProducerObj)
    \/ SendCount(ProducerObj)
    \/ ScopeEnter
    \/ ScopeExit
    \/ ScopeRaise

InitProducer ==
    /\ InitState
    /\ fleet = {}
    /\ faulty = [pre |-> {}, post |-> {}]
    /\ filters = [i \in Instances |-> SampleFilters]

SpecProducer == InitProducer /\ [][NextProducer]_vars

\* The consumer engine of one instance, fed by the producer and the router,
\* with every choice of raising hooks.
NextEngine ==
    \/ SendDeclare(ProducerObj)
    \/ SendUpload(ProducerObj)
    \/ SendUploadFails(ProducerObj)
    \/ SendPush(ProducerObj)
    \/ SendCount(ProducerObj)
    \/ Route
    \/ \E i \in Instances : LoopStart(i)
    \/ \E i \in Instances : LoopTop(i)
    \/ \E i \in Instances : Blpop(i)
    \/ \E i \in Instances : BlpopTimeout(i)
    \/ \E i \in Instances : Fetch(i)
    \/ \E i \in Instances : Start(i)
    \/ \E i \in Instances : HandlerReturns(i)
    \/ \E i \in Instances : Finalize(i)

InitEngine ==
    /\ InitState
    /\ fleet = {"i1"}
    /\ faulty \in HookFaults
    /\ filters = [i \in Instances |-> SampleFilters]

SpecEngine == InitEngine /\ [][NextEngine]_vars

\* One Karton instance, a consumer whose handler sends tasks, which receives
\* signals; the producer sends the initial tasks.  Its hooks do not raise.
NextKarton ==
    \/ \E o \in Objs : SendDeclare(o)
    \/ \E o \in Objs : SendUpload(o)
    \/ \E o \in Objs : SendUploadFails(o)
    \/ \E o \in Objs : SendPush(o)
    \/ \E o \in Objs : SendCount(o)
    \/ Route
    \/ \E i \in Instances : GracefulShutdown(i)
    \/ \E i \in Instances : LoopStart(i)
    \/ \E i \in Instances : LoopTop(i)
    \/ \E i \in Instances : Blpop(i)
    \/ \E i \in Instances : BlpopTimeout(i)
    \/ \E i \in Instances : Fetch(i)
    \/ \E i \in Instances : Start(i)
    \/ \E i \in Instances : HandlerReturns(i)
    \/ \E i \in Instances : Finalize(i)

InitKarton ==
    /\ InitState
    /\ fleet = {"i1"}
    /\ faulty = [pre |-> {}, post |-> {}]
    /\ filters \in {f \in [Instances -> FilterSets] : f["i2"] = f["i1"]}

SpecKarton == InitKarton /\ [][NextKarton]_vars

\* Two instances under one identity, of the same or of different versions of
\* the consumer (the second may declare other filters), fed by the producer
\* and the router.  Their hooks do not raise and no signal arrives.
NextFleet ==
    \/ SendDeclare(ProducerObj)
    \/ SendUpload(ProducerObj)
    \/ SendUploadFails(ProducerObj)
    \/ SendPush(ProducerObj)
    \/ SendCount(ProducerObj)
    \/ Route
    \/ \E i \in Instances : LoopStart(i)
    \/ \E i \in Instances : LoopTop(i)
    \/ \E i \in Instances : Blpop(i)
    \/ \E i \in Instances : BlpopTimeout(i)
    \/ \E i \in Instances : Fetch(i)
    \/ \E i \in Instances : Start(i)
    \/ \E i \in Instances : HandlerReturns(i)
    \/ \E i \in Instances : Finalize(i)

InitFleet ==
    /\ InitState
    /\ fleet = Instances
    /\ faulty = [pre |-> {}, post |-> {}]
    /\ filters \in {f \in [Instances -> FilterSets] : f["i1"] = SampleFilters}

SpecFleet == InitFleet /\ [][NextFleet]_vars

\* One instance that handles tasks, and the producer that later continues
\* them in continue_asynchronic scopes.
NextAsync ==
    \/ \E o \in Objs : SendDeclare(o)
    \/ \E o \in Objs : SendUpload(o)
    \/ \E o \in Objs : SendUploadFails(o)
    \/ \E o \in Objs : SendPush(o)
    \/ \E o \in Objs : SendCount(o)
    \/ ScopeEnter
    \/ ScopeExit
    \/ ScopeRaise
    \/ Route
    \/ \E i \in Instances : LoopStart(i)
    \/ \E i \in Instances : LoopTop(i)
    \/ \E i \in Instances : Blpop(i)
    \/ \E i \in Instances : BlpopTimeout(i)
    \/ \E i \in Instances : Fetch(i)
    \/ \E i \in Instances : Start(i)
    \/ \E i \in Instances : HandlerReturns(i)
    \/ \E i \in Instances : Finalize(i)

InitAsync ==
    /\ InitState
    /\ fleet = {"i1"}
    /\ faulty = [pre |-> {}, post |-> {}]
    /\ filters = [i \in Instances |-> SampleFilters]

SpecAsync == InitAsync /\ [][NextAsync]_vars

\* One instance whose reads of task records may fail, fed by the producer
\* and the router.
NextTransport ==
    \/ SendDeclare(ProducerObj)
    \/ SendUpload(ProducerObj)
    \/ SendUploadFails(ProducerObj)
    \/ SendPush(ProducerObj)
    \/ SendCount(ProducerObj)
    \/ Route
    \/ \E i \in Instances : LoopStart(i)
    \/ \E i \in Instances : LoopTop(i)
    \/ \E i \in Instances : Blpop(i)
    \/ \E i \in Instances : BlpopTimeout(i)
    \/ \E i \in Instances : Fetch(i)
    \/ \E i \in Instances : FetchFails(i)
    \/ \E i \in Instances : Start(i)
    \/ \E i \in Instances : HandlerReturns(i)
    \/ \E i \in Instances : Finalize(i)

InitTransport ==
    /\ InitState
    /\ fleet = {"i1"}
    /\ faulty = [pre |-> {}, post |-> {}]
    /\ filters = [i \in Instances |-> SampleFilters]

SpecTransport == InitTransport /\ [][NextTransport]_vars

\* A step of the loop of instance i, from the top of an iteration to the
\* return of internal_process.
LoopStep(i) ==
    \/ LoopTop(i)
    \/ Blpop(i)
    \/ BlpopTimeout(i)
    \/ Fetch(i)
    \/ Start(i)
    \/ HandlerReturns(i)
    \/ Finalize(i)

\* The process of an instance keeps running its loop: the blocking pop
\* returns (with an entry or after its timeout of 5 seconds), and handlers
\* and hooks return.
Fairness == \A i \in Instances : WF_vars(LoopStep(i))

\* Two instances under one identity that receive signals, the second with
\* other filters than the first, fed by the producer and the router, each
\* running its loop fairly.  The producer sends up to MaxRetireTasks
\* tasks.
NextRetire ==
    \/ (created < MaxRetireTasks /\ SendDeclare(ProducerObj))
    \/ SendUpload(ProducerObj)
    \/ SendUploadFails(ProducerObj)
    \/ SendPush(ProducerObj)
    \/ SendCount(ProducerObj)
    \/ Route
    \/ \E i \in Instances : GracefulShutdown(i)
    \/ \E i \in Instances : LoopStart(i)
    \/ \E i \in Instances : LoopStep(i)

InitRetire ==
    /\ InitState
    /\ fleet = Instances
    /\ faulty = [pre |-> {}, post |-> {}]
    /\ filters = [i \in Instances |-> IF i = "i1" THEN SampleFilters ELSE ConfigFilters]

SpecRetire == InitRetire /\ [][NextRetire]_vars /\ Fairness

\* ------------------------------------------------------------------ claims
\* What the trace of an internal_process call shows.
Events(i, ev) == {k \in DOMAIN trace[i] : trace[i][k].ev = ev}
Declarations(i, status) ==
    {k \in DOMAIN trace[i] : trace[i][k].ev = "declare" /\ trace[i][k].arg = status}

\* The instance is inside internal_process, or has just returned from it.
Fetched(i) == item[i].data # NoUid /\ pc[i] \in {"start", "process", "finally", "top"}
Returned(i) == item[i].data # NoUid /\ pc[i] = "top"

\* The fetched task's headers satisfy at least one bind of the instance.
TaskMatches(i) ==
    LET headers == records[item[i].data].headers IN
    \E n \in DOMAIN filters[i] :
        \A k \in DOMAIN filters[i][n] :
            k \in DOMAIN headers /\ headers[k] = filters[i][n][k]

\* C1: the handler is invoked only for a fetched task whose headers match at
\* least one bind of the consumer's filters; for a task that matches none,
\* internal_process declares FINISHED exactly once, declares no STARTED and
\* does not invoke the handler.
C1_ProcessOnlyIfBindMatches ==
    \A i \in Instances :
        Fetched(i) =>
            /\ Events(i, "process") # {} => TaskMatches(i)
            /\ ~TaskMatches(i) =>
                  /\ Declarations(i, STARTED) = {}
                  /\ Events(i, "process") = {}
                  /\ Returned(i) => trace[i] = <<Ev("declare", 0, FINISHED, FALSE)>>
                  /\ declared[<<item[i].data, STARTED, Identity(i)>>] = 0
                  /\ Returned(i) => declared[<<item[i].data, FINISHED, Identity(i)>>] = 1

\* An instance has rejected a task that matches none of its binds, and the
\* other has handled one that matches.
C1_Witness ==
    \E i, j \in Instances :
        /\ Returned(i) /\ ~TaskMatches(i)
        /\ trace[i] = <<Ev("declare", 0, FINISHED, FALSE)>>
        /\ Returned(j) /\ TaskMatches(j) /\ Events(j, "process") # {}

\* The task uids that are in some queue.
InQueue(q) == {queue[q][k] : k \in DOMAIN queue[q]}
QueuedUids == UNION {InQueue(q) : q \in QueueNames}

\* The uids an instance has popped.
PoppedUids == {item[i].data : i \in Instances} \ {NoUid}

\* The broker holds the full record of the task under its key.
HasRecord(uid) ==
    /\ records[uid] # NoTask
    /\ records[uid].uid = uid
    /\ "origin" \in DOMAIN records[uid].headers

\* C2: write-then-publish: a task uid that is in a queue (or that an instance
\* has popped from one) has its record in the broker, and send_task has
\* written the record of its task whenever it is at or past the push.
C2_WriteThenPublish ==
    /\ \A uid \in QueuedUids \cup PoppedUids : HasRecord(uid)
    /\ \A o \in Objs :
          spc[o] \in {"uploaded", "pushed"} =>
              HasRecord(sending[o].uid) /\ records[sending[o].uid] = sending[o]

\* A uid waits in a consumer queue for an instance that is polling, while a
\* sender has written the record of another task and not pushed its uid yet.
C2_Witness ==
    /\ \E q \in ConsumerQueues : queue[q] # <<>>
    /\ \E o \in Objs : spc[o] = "declared" /\ HasRecord(sending[o].uid)
    /\ \E i \in Instances : pc[i] = "blpop"

\* The caller's task a record was completed from: the caller's tasks are
\* told apart by their type and kind headers.
GivenTask(task) ==
    CHOOSE t \in CallerTasks :
        t.headers.type = task.headers.type /\ t.headers.kind = task.headers.kind

\* Every local resource of the task has its bucket (the default one if the
\* caller gave none) and is in the object store under it.
LocalsUploaded(uid) ==
    LET task == records[uid]
        given == GivenTask(task) IN
    /\ DOMAIN task.resources = DOMAIN given.resources
    /\ \A n \in DOMAIN task.resources :
          task.resources[n].local =>
              /\ task.resources[n].bucket # NoBucket
              /\ task.resources[n].bucket =
                    IF given.resources[n].bucket = NoBucket
                    THEN DefaultBucket
                    ELSE given.resources[n].bucket
              /\ <<task.resources[n].bucket, uid, n>> \in minio

\* C3: every local resource of a task whose uid is in a queue has a bucket
\* assigned and has been uploaded; so has every task an instance has popped.
C3_LocalResourcesUploadedBeforeVisible ==
    \A uid \in QueuedUids \cup PoppedUids : LocalsUploaded(uid)

\* An instance has popped a task with two local resources, one in the
\* caller's bucket and one in the default bucket, while another sender is
\* between its record write and its upload.
C3_Witness ==
    \E i \in Instances :
        /\ pc[i] = "fetch"
        /\ \E n, m \in LocalResources(records[item[i].data]) :
              /\ records[item[i].data].resources[n].bucket = DefaultBucket
              /\ records[item[i].data].resources[m].bucket = OwnBucket
        /\ \E o \in Objs : spc[o] = "declared" /\ LocalResources(sending[o]) # {}

\* C4: a task sent while a current task is set has the current task as its
\* parent, the current task's priority whatever priority the caller set, and
\* the current task's persistent payload fields; a task sent while no current
\* task is set keeps the parent (none) and the priority the caller set.
C4_SentTaskInheritsFromCurrentTask ==
    \A o \in Objs :
        spc[o] # "idle" =>
            LET task == sending[o]
                given == GivenTask(task)
                cur == current_task[o] IN
            /\ records[task.uid] = task
            /\ cur # NoUid =>
                  /\ task.parent = cur
                  /\ task.priority = records[cur].priority
                  /\ \A k \in DOMAIN records[cur].payload_persistent :
                        /\ k \in DOMAIN task.payload_persistent
                        /\ task.payload_persistent[k] \in
                              {records[cur].payload_persistent[k]} \cup
                              {given.payload_persistent[j] : j \in DOMAIN given.payload_persistent \cap {k}}
            /\ cur = NoUid =>
                  /\ task.parent = NoUid
                  /\ task.priority = given.priority
                  /\ task.payload_persistent = given.payload_persistent

\* A handler sends a task whose caller set another priority than the current
\* task's, and that had no persistent field of its own, while the current
\* task has one.
C4_Witness ==
    \E i \in Instances :
        /\ spc[i] = "pushed"
        /\ current_task[i] # NoUid
        /\ GivenTask(sending[i]).priority # records[current_task[i]].priority
        /\ GivenTask(sending[i]).payload_persistent = NoPayload
        /\ records[current_task[i]].payload_persistent # NoPayload
        /\ sending[i].payload_persistent = records[current_task[i]].payload_persistent

\* A step that closes the innermost continue_asynchronic scope.
ScopeCloses == Len(scopes') < Len(scopes)

\* C5: when a continue_asynchronic scope closes, after a normal or a failed
\* unit of work, current_task is again what it was right before the scope was
\* entered.
C5_ScopeRestoresCurrentTask ==
    [][ScopeCloses =>
          current_task'[ProducerObj] = Head(scopes).old_current_task]_vars

\* C6: when a continue_asynchronic scope closes, after a normal or a failed
\* unit of work, FINISHED is declared exactly once for the scope's task unless
\* finish is False, and then nothing is declared.
C6_ScopeDeclaresFinished ==
    [][ScopeCloses =>
          declared' =
              IF Head(scopes).finish
              THEN [declared EXCEPT
                      ![<<Head(scopes).task, FINISHED, Identity(ProducerObj)>>] = @ + 1]
              ELSE declared]_vars

\* A step in which instance i receives a task uid from its poll.
Pops(i) == pc[i] = "blpop" /\ pc'[i] = "fetch"

\* The poll of instance i has served the first non-empty queue of the four,
\* taken in the order q1, q2, q3, q4, and has taken that queue's first uid.
ServedInOrder(i, q1, q2, q3, q4) ==
    LET first == IF queue[q1] # <<>> THEN q1
                 ELSE IF queue[q2] # <<>> THEN q2
                 ELSE IF queue[q3] # <<>> THEN q3
                 ELSE q4 IN
    /\ queue[first] # <<>>
    /\ item'[i] = [queue |-> first, data |-> Head(queue[first])]
    /\ queue' = [queue EXCEPT ![first] = Tail(@)]

\* C7 as claimed: the uid a poll returns comes from the HIGH queue if it is
\* non-empty, else from NORMAL, else from LOW, and from the legacy queue only
\* when the three priority queues are empty.
C7_LegacyQueueDrainedLast ==
    [][\A i \in Instances :
          Pops(i) => ServedInOrder(i, PriorityQueue(HIGH), PriorityQueue(NORMAL),
                                   PriorityQueue(LOW), LegacyQueue)]_vars

\* C7 as amended: the uid a poll returns comes from the legacy queue if it is
\* non-empty, else from HIGH, else from NORMAL, else from LOW.
C7_LegacyQueueDrainedFirst ==
    [][\A i \in Instances :
          Pops(i) => ServedInOrder(i, LegacyQueue, PriorityQueue(HIGH),
                                   PriorityQueue(NORMAL), PriorityQueue(LOW))]_vars

\* A poll has returned the uid of the legacy queue while the uid of another
\* task waits in the HIGH queue.
C7_Witness ==
    \E i \in Instances :
        /\ pc[i] = "fetch"
        /\ item[i].queue = LegacyQueue
        /\ queue[PriorityQueue(HIGH)] # <<>>
        /\ created = MaxTasks
        /\ \A o \in Objs : spc[o] = "idle"
        /\ queue[TASKS_QUEUE] = <<>>

\* The hooks of one kind that the trace shows invoked, in the order of their
\* invocation.
Invoked(i, ev) ==
    LET calls == SelectSeq(trace[i], LAMBDA e : e.ev = ev) IN
    [k \in DOMAIN calls |-> calls[k].n]
InOrder(n) == [k \in 1 .. n |-> k]

\* The positions of the trace at which internal_process finalizes the task.
Finalization(i) ==
    {k \in DOMAIN trace[i] :
        /\ trace[i][k].ev = "hincrby"
        /\ trace[i][k].arg = METRICS_CONSUMED}

\* The instance has declared STARTED for the fetched task: the task is handled.
Handling(i) == Fetched(i) /\ Declarations(i, STARTED) # {}

\* C8: whatever hooks raise, each registered pre-hook is invoked once, in
\* registration order, before the handler; the handler is invoked; each
\* registered post-hook is then invoked once, in registration order; and the
\* finalization (the consumed counter, FINISHED for a task that is not
\* asynchronic) runs after them.
C8_HookFailuresAreIsolated ==
    \A i \in Instances :
        Handling(i) =>
            /\ Invoked(i, "pre") = InOrder(NumPreHooks)
            /\ pc[i] \in {"finally", "top"} =>
                  /\ Cardinality(Events(i, "process")) = 1
                  /\ \A h \in Events(i, "pre"), p \in Events(i, "process") : h < p
                  /\ Invoked(i, "post") = InOrder(NumPostHooks)
                  /\ \A h \in Events(i, "post"), p \in Events(i, "process") : p < h
            /\ pc[i] = "top" =>
                  /\ Cardinality(Finalization(i)) = 1
                  /\ \A h \in Events(i, "post"), f \in Finalization(i) : h < f
                  /\ ~records[item[i].data].asynchronic =>
                        trace[i][Len(trace[i])] = Ev("declare", 0, FINISHED, FALSE)

\* A handled task has gone through a first pre-hook and a first post-hook
\* that raised, through the hooks registered after them, through the handler
\* and through the finalization.
C8_Witness ==
    \E i \in Instances :
        /\ Handling(i) /\ pc[i] = "top"
        /\ \E k \in Events(i, "pre") : trace[i][k].n = 1 /\ trace[i][k].raised
        /\ \E k \in Events(i, "pre") : trace[i][k].n = NumPreHooks /\ ~trace[i][k].raised
        /\ \E k \in Events(i, "post") : trace[i][k].n = 1 /\ trace[i][k].raised
        /\ \E k \in Events(i, "post") : trace[i][k].n = NumPostHooks
        /\ Finalization(i) # {}
        /\ Declarations(i, FINISHED) # {}

\* C9: when internal_process returns from a task that is not asynchronic and
\* for which it declared STARTED, it has declared FINISHED for the task
\* exactly once, as its last step, whether the handler returned or raised.
C9_HandledTaskIsFinished ==
    \A i \in Instances :
        (Handling(i) /\ ~records[item[i].data].asynchronic) =>
            /\ declared[<<item[i].data, STARTED, Identity(i)>>] = 1
            /\ pc[i] # "top" =>
                  /\ Declarations(i, FINISHED) = {}
                  /\ declared[<<item[i].data, FINISHED, Identity(i)>>] = 0
            /\ pc[i] = "top" =>
                  /\ Declarations(i, FINISHED) = {Len(trace[i])}
                  /\ declared[<<item[i].data, FINISHED, Identity(i)>>] = 1

\* internal_process has returned from a task that is not asynchronic and
\* whose handler raised, with FINISHED declared last.
C9_Witness ==
    \E i \in Instances :
        /\ Handling(i) /\ pc[i] = "top"
        /\ ~records[item[i].data].asynchronic
        /\ saved_exception[i] = AnException
        /\ \E k \in Events(i, "process") : trace[i][k].raised
        /\ Declarations(i, FINISHED) = {Len(trace[i])}

\* The engine has handled the asynchronic task: a bind matched and STARTED
\* was declared.
HandledAsynchronic(uid) ==
    /\ records[uid] # NoTask
    /\ records[uid].asynchronic
    /\ declared[<<uid, STARTED, ConsumerIdentity>>] > 0

\* C10: for an asynchronic task the engine has handled, the engine declares
\* no FINISHED; FINISHED is declared for it only by the closing of a
\* continue_asynchronic scope entered for it, and that closing restores the
\* current task of before the scope.
C10_AsynchronicTaskFinishedByItsScope ==
    [][\A uid \in TaskIds :
          HandledAsynchronic(uid) =>
              /\ declared'[<<uid, FINISHED, ConsumerIdentity>>] =
                    declared[<<uid, FINISHED, ConsumerIdentity>>]
              /\ declared'[<<uid, FINISHED, ProducerIdentity>>] #
                    declared[<<uid, FINISHED, ProducerIdentity>>] =>
                    /\ ScopeCloses
                    /\ Head(scopes).task = uid
                    /\ current_task'[ProducerObj] = Head(scopes).old_current_task]_vars

\* The instance's loop is running: it has registered and has not left.
Running(i) == pc[i] \notin {"created", "exited", "crashed"}

\* The registry holds another value than the instance's own registration.
Stale(i) == binds # Registration(i)

\* A step in which instance i leaves the top of an iteration: the while
\* condition and the registry check have been evaluated.
Checks(i) == pc[i] = "top" /\ pc'[i] # "top"

\* C11 as claimed: once the registry value differs from the own registration
\* of a running instance, the instance pops no further task, wherever the
\* registry write falls relative to its registry check and its blocking pop.
C11_NoPopAfterRegistryChange ==
    [][\A i \in Instances : Pops(i) => ~Stale(i)]_vars

\* C11 as amended: an instance whose registry check finds another value than
\* its own registration leaves the loop at that check, without a pop; an
\* instance starts a blocking pop only from a check that found its own
\* registration, and every pop comes from such a blocking pop.
C11_StaleInstanceExitsAtItsCheck ==
    [][\A i \in Instances :
          /\ (Checks(i) /\ Stale(i)) =>
                /\ pc'[i] = "exited"
                /\ queue' = queue
                /\ item'[i] = NoItem
          /\ (pc[i] # "blpop" /\ pc'[i] = "blpop") =>
                /\ pc[i] = "top"
                /\ ~Stale(i)
                /\ ~shutdown[i]
          /\ Pops(i) => pc[i] = "blpop"]_vars

\* An instance has left its loop because the other instance, which is
\* polling, has overwritten the registration; no signal was received.
C11_Witness ==
    \E i, j \in Instances :
        /\ pc[i] = "exited" /\ ~shutdown[i] /\ Stale(i)
        /\ pc[j] = "blpop" /\ ~Stale(j)
        /\ metrics[METRICS_CONSUMED][ConsumerIdentity] > 0

\* The instance has run the registration step of its loop.
Registered(i) == pc[i] # "created"

\* A step in which instance i runs the registration step.
Registers(i) == pc[i] = "created" /\ pc'[i] # "created"

\* C12: the registration step reads the value the registry held right before
\* its own write, which is the value the registration step serialized before
\* it wrote (none for the first); of two instances that started on an empty
\* registry entry, exactly one has read no previous value and the other has
\* read the registration of the first.
C12_RegistrationStepIsAtomic ==
    /\ [](\A i, j \in Instances :
            (i # j /\ Registered(i) /\ Registered(j)) =>
                \/ /\ old_registration[i] = NoRegistration
                   /\ old_registration[j] = Registration(i)
                   /\ binds = Registration(j)
                \/ /\ old_registration[j] = NoRegistration
                   /\ old_registration[i] = Registration(j)
                   /\ binds = Registration(i))
    /\ [](\A i \in Instances :
            (Registered(i) /\ \A j \in Instances \ {i} : ~Registered(j)) =>
                old_registration[i] = NoRegistration /\ binds = Registration(i))
    /\ [][\A i \in Instances :
            Registers(i) =>
                /\ old_registration'[i] = binds
                /\ binds' = Registration(i)
                /\ \A j \in Instances \ {i} : old_registration'[j] = old_registration[j]]_vars

\* Two instances with different filters have both registered: the first read
\* no previous value, the second read the registration of the first.
C12_Witness ==
    /\ Registered("i1") /\ Registered("i2")
    /\ Registration("i1") # Registration("i2")
    /\ old_registration["i2"] = NoRegistration
    /\ old_registration["i1"] = Registration("i2")
    /\ binds = Registration("i1")

\* The number of STARTED declarations under the consumer identity, over the
\* tasks 1 .. n.
RECURSIVE StartedUpTo(_)
StartedUpTo(n) ==
    IF n = 0 THEN 0
    ELSE declared[<<n, STARTED, ConsumerIdentity>>] + StartedUpTo(n - 1)

\* The instance holds a popped task that internal_process has not returned
\* from.
Claimed(i) == pc[i] \in {"fetch", "start", "process", "finally"}

\* The position after a step of internal_process at position p.
AfterStep(p) ==
    CASE p = "fetch" -> {"start", "top"}
      [] p = "start" -> {"process"}
      [] p = "process" -> {"finally"}
      [] p = "finally" -> {"top"}

\* C13: the loop of an instance ends only at the top of an iteration; with
\* the flag set, a claimed task goes on through matching, STARTED and the
\* pre-hooks, the handler and the post-hooks, and the finalization; and when
\* the loop of the only instance has ended, every task it started is
\* finalized (counted as consumed, FINISHED declared unless asynchronic).
C13_ShutdownNeverCancelsClaimedTask ==
    /\ [][\A i \in Instances :
            /\ (pc[i] # "exited" /\ pc'[i] = "exited") => pc[i] = "top"
            /\ (shutdown[i] /\ Claimed(i) /\ pc'[i] # pc[i]) =>
                  pc'[i] \in AfterStep(pc[i])]_vars
    /\ [](\A i \in fleet :
            pc[i] = "exited" =>
                /\ metrics[METRICS_CONSUMED][ConsumerIdentity] = StartedUpTo(MaxTasks)
                /\ \A uid \in TaskIds :
                      (records[uid] # NoTask /\ ~records[uid].asynchronic) =>
                          declared[<<uid, FINISHED, ConsumerIdentity>>] =
                              declared[<<uid, STARTED, ConsumerIdentity>>])

\* With the flag set, internal_process has returned from a task whose
\* handler raised: the post-hooks ran, the task was counted and declared
\* FINISHED, and the loop is at the top of the iteration that will end it.
C13_Witness ==
    \E i \in Instances :
        /\ shutdown[i]
        /\ Handling(i) /\ pc[i] = "top"
        /\ saved_exception[i] = AnException
        /\ Events(i, "post") # {}
        /\ Finalization(i) # {}
        /\ Declarations(i, FINISHED) # {}

\* C14: a failed read of the record of a popped task does not end the loop:
\* from the read, the instance goes on to the handling of the task or to the
\* top of its next iteration, and loop never ends by an exception.
C14_RecordReadFailureKeepsLoop ==
    [][\A i \in Instances :
          (pc[i] = "fetch" /\ pc'[i] # "fetch") => pc'[i] \in {"start", "top"}]_vars

\* The handler of the task in hand has raised.
HandlerRaised(i) == \E k \in Events(i, "process") : trace[i][k].raised

\* C15: when the handler raises, internal_process goes on to its finally
\* clause and returns to the loop, which goes on to its next poll; after any
\* number of failed handlers the loop of a deployed instance has not ended.
C15_HandlerFailureIsContained ==
    /\ [][\A i \in Instances :
            /\ (pc[i] = "process" /\ pc'[i] # "process") =>
                  /\ pc'[i] = "finally"
                  /\ saved_exception'[i] = AnException <=>
                        (\E k \in DOMAIN trace'[i] :
                            trace'[i][k].ev = "process" /\ trace'[i][k].raised)
            /\ (pc[i] = "finally" /\ pc'[i] # "finally") => pc'[i] = "top"
            /\ (Checks(i) /\ ~shutdown[i] /\ ~Stale(i)) => pc'[i] = "blpop"]_vars
    /\ [](\A i \in fleet :
            metrics[METRICS_ERRORED][ConsumerIdentity] > 0 => Running(i))

\* After a task whose handler raised, the instance has fetched another task
\* and is in its handler.
C15_Witness ==
    \E i \in Instances :
        /\ metrics[METRICS_ERRORED][ConsumerIdentity] = 1
        /\ metrics[METRICS_CONSUMED][ConsumerIdentity] = 1
        /\ pc[i] = "process"
        /\ Handling(i)
        /\ ~HandlerRaised(i)

\* The number of entries of a list that hold the uid.
Occurrences(q, uid) == Cardinality({k \in DOMAIN queue[q] : queue[q][k] = uid})

\* The number of entries that hold the uid, over the consumer's queues 1 .. n
\* of the poll.
RECURSIVE QueuedUpTo(_, _)
QueuedUpTo(n, uid) ==
    IF n = 0 THEN 0
    ELSE Occurrences(BlpopKeys[n], uid) + QueuedUpTo(n - 1, uid)

\* The instances that hold the uid as a claimed task.
Owners(uid) == {i \in Instances : Claimed(i) /\ item[i].data = uid}

\* C16: an entry of a consumer queue goes to one instance: a uid is in the
\* consumer's queues or in the hands of one instance, never both and never
\* in the hands of two; STARTED is declared at most once for it; the pop
\* removes the entry it returns; and an instance pops only when it holds no
\* claimed task.
C16_EachEntryHasOneOwner ==
    /\ [](\A uid \in TaskIds :
            /\ QueuedUpTo(Len(BlpopKeys), uid) + Cardinality(Owners(uid)) <= 1
            /\ declared[<<uid, STARTED, ConsumerIdentity>>] <= 1)
    /\ [][\A i \in Instances :
            Pops(i) =>
                /\ ~Claimed(i)
                /\ Len(queue'[item'[i].queue]) = Len(queue[item'[i].queue]) - 1
                /\ \A j \in Instances \ {i} : item'[j] = item[j]]_vars

\* Two instances are in their handlers at the same time, each with a task of
\* its own.
C16_Witness ==
    /\ pc["i1"] = "process" /\ pc["i2"] = "process"
    /\ item["i1"].data # NoUid /\ item["i2"].data # NoUid
    /\ item["i1"].data # item["i2"].data

\* Every event of the first kind stands before every event of the second.
Before(i, first, second) == \A a \in first, b \in second : a < b

\* C17: in the trace of a handled task, STARTED is the first event, then come
\* the pre-hooks, then the one handler call, then the post-hooks, each called
\* with the exception the handler raised (none if it returned), then the
\* consumed increment, then FINISHED; FINISHED is declared for the task only
\* after STARTED.
C17_HandledTaskEventOrder ==
    \A i \in Instances :
        Handling(i) =>
            LET started == Declarations(i, STARTED)
                finished == Declarations(i, FINISHED)
                pre == Events(i, "pre")
                process == Events(i, "process")
                post == Events(i, "post")
                consumed == Finalization(i) IN
            /\ started = {1}
            /\ Cardinality(pre) = NumPreHooks
            /\ Before(i, started, pre)
            /\ Before(i, pre, process)
            /\ Before(i, process, post)
            /\ Before(i, post, consumed)
            /\ Before(i, consumed, finished)
            /\ Before(i, started, finished)
            /\ pc[i] = "process" => process = {} /\ post = {} /\ consumed = {}
            /\ pc[i] \in {"finally", "top"} =>
                  /\ Cardinality(process) = 1
                  /\ Cardinality(post) = NumPostHooks
                  /\ \A p \in process, h \in post :
                        /\ trace[i][h].arg = trace[i][p].arg
                        /\ trace[i][p].raised <=> trace[i][h].arg = AnException
                        /\ ~trace[i][p].raised <=> trace[i][h].arg = NoException
            /\ pc[i] = "finally" => consumed = {} /\ finished = {}
            /\ pc[i] = "top" =>
                  /\ Cardinality(consumed) = 1
                  /\ Cardinality(finished) <= 1
            /\ declared[<<item[i].data, FINISHED, Identity(i)>>] > 0 =>
                  /\ declared[<<item[i].data, STARTED, Identity(i)>>] > 0
                  /\ finished # {}

\* internal_process has returned from a task whose handler raised: the
\* post-hooks were called with the exception, after the pre-hooks and the
\* handler, and the consumed increment and FINISHED came last.
C17_Witness ==
    \E i \in Instances :
        /\ Handling(i) /\ pc[i] = "top"
        /\ HandlerRaised(i)
        /\ \A h \in Events(i, "post") : trace[i][h].arg = AnException
        /\ Cardinality(Events(i, "post")) = NumPostHooks
        /\ Cardinality(Events(i, "pre")) = NumPreHooks
        /\ Declarations(i, STARTED) = {1}
        /\ Declarations(i, FINISHED) = {Len(trace[i])}
        /\ Finalization(i) = {Len(trace[i]) - 1}

\* The counters of the consumer identity.
Consumed == metrics[METRICS_CONSUMED][ConsumerIdentity]
Errored == metrics[METRICS_ERRORED][ConsumerIdentity]

\* No instance is inside internal_process.
Quiescent == \A i \in Instances : ~Claimed(i)

\* C18: the step that ends the handler call adds 1 to the errored counter if
\* the handler raised and nothing otherwise; the finalization adds 1 to the
\* consumed counter on both paths; no other step changes the two counters;
\* so with no task in handling, consumed is the number of handled tasks and
\* errored <= consumed.
C18_MetricsAccounting ==
    /\ [][\A i \in Instances :
            /\ (pc[i] = "process" /\ pc'[i] = "finally") =>
                  /\ metrics'[METRICS_ERRORED][ConsumerIdentity] =
                        Errored + (IF saved_exception'[i] = AnException THEN 1 ELSE 0)
                  /\ metrics'[METRICS_CONSUMED][ConsumerIdentity] = Consumed
            /\ (pc[i] = "finally" /\ pc'[i] = "top") =>
                  /\ metrics'[METRICS_CONSUMED][ConsumerIdentity] = Consumed + 1
                  /\ metrics'[METRICS_ERRORED][ConsumerIdentity] = Errored]_vars
    /\ [][(\A i \in Instances : pc'[i] = pc[i] \/ pc[i] \notin {"process", "finally"}) =>
            /\ metrics'[METRICS_CONSUMED] = metrics[METRICS_CONSUMED]
            /\ metrics'[METRICS_ERRORED] = metrics[METRICS_ERRORED]]_vars
    /\ [](Quiescent =>
            /\ Consumed = StartedUpTo(MaxTasks)
            /\ Errored <= Consumed)
    /\ [](Errored <= Consumed + Cardinality({i \in Instances : pc[i] = "finally"}))

\* With no task in handling, two tasks are counted consumed and one of them
\* errored.
C18_Witness ==
    /\ Quiescent
    /\ Consumed = 2
    /\ Errored = 1

\* C19: under fairness of the loop, an instance whose flag is set while its
\* loop runs eventually leaves the loop, and so does an instance for which
\* the registry value from some point on stays different from its own
\* registration; also when the queues stay empty.
C19_RetirementIsLive ==
    \A i \in Instances :
        /\ (Registered(i) /\ shutdown[i]) ~> (pc[i] = "exited")
        /\ <>[](Registered(i) /\ Stale(i)) => <>(pc[i] = "exited")

\* With no task ever sent, one instance has left its loop on the flag and the
\* other, without a signal, on the registration that replaced its own.
C19_Witness ==
    \E i, j \in Instances :
        /\ created = 0
        /\ pc[i] = "exited" /\ shutdown[i] /\ ~Stale(i)
        /\ pc[j] = "exited" /\ ~shutdown[j] /\ Stale(j)

\* A step in which send_task of object o ends by the exception of an upload.
UploadFails(o) == spc[o] = "declared" /\ spc'[o] = "idle"

\* The produced counter of an identity.
Produced(idn) == metrics[METRICS_PRODUCED][idn]

\* The uids the objects of an identity have pushed onto the unrouted queue,
\* where nothing takes them off.
Pushed(idn) ==
    {uid \in InQueue(TASKS_QUEUE) : records[uid].headers.origin = idn}

\* C20: when an upload fails after the record write, the step leaves the
\* record in the broker and changes neither the queues nor the counters, and
\* the uid is never pushed later; the produced counter of an identity is the
\* number of uids the identity has pushed, less the one between push and
\* count, so it never exceeds the pushes.
C20_SendIsNotAtomicOnFailure ==
    /\ [][\A o \in Objs :
            UploadFails(o) =>
                /\ records'[sending[o].uid] = sending[o]
                /\ records' = records
                /\ queue' = queue
                /\ metrics' = metrics]_vars
    /\ [](\A uid \in TaskIds :
            (/\ uid <= created
             /\ \A o \in Objs : sending[o] = NoTask \/ sending[o].uid # uid) =>
                /\ records[uid] # NoTask
                /\ Occurrences(TASKS_QUEUE, uid) <= 1)
    /\ [](\A idn \in Identities :
            /\ Produced(idn) <= Cardinality(Pushed(idn))
            /\ Cardinality(Pushed(idn)) - Produced(idn) =
                  Cardinality({o \in Objs : Identity(o) = idn /\ spc[o] = "pushed"}))
    /\ [][\A uid \in TaskIds :
            (uid <= created /\ uid \notin InQueue(TASKS_QUEUE)
             /\ \A o \in Objs : sending[o] = NoTask \/ sending[o].uid # uid) =>
                uid \notin {queue'[TASKS_QUEUE][k] : k \in DOMAIN queue'[TASKS_QUEUE]}]_vars

\* A send_task has failed at an upload and a later one has succeeded: the
\* record of the first task is in the broker, its uid is in no queue, and the
\* produced counter counts the second task only.
C20_Witness ==
    /\ \A o \in Objs : spc[o] = "idle"
    /\ created = 2
    /\ records[1] # NoTask
    /\ 1 \notin InQueue(TASKS_QUEUE)
    /\ 2 \in InQueue(TASKS_QUEUE)
    /\ Produced(ProducerIdentity) = 1

====
